---- MODULE Spec2Model ----
(***************************************************************************)
(* typeid_prefix: validation and sanitization of TypeID prefixes.          *)
(*                                                                         *)
(* A Rust `String`/`&str` is modelled as the sequence of its `char`s, each *)
(* char being its Unicode scalar value.  `str::len` is the UTF-8 byte      *)
(* length, `chars()` iterates the scalar values.                           *)
(***************************************************************************)
EXTENDS Integers, Sequences, FiniteSets

VARIABLES
    input,      \* the string the caller passes in
    op,         \* the operation that has run ("init" before any)
    ret,        \* what it returned: a Result, or a plain TypeIdPrefix
    cleaned,    \* create_prefix_sanitized's local `input`, the cleaned string
    fallback,   \* the error handed to the unwrap_or_else closure, if it ran
    checked,    \* the result of validating the returned prefix once more
    wire,       \* the string the returned prefix was serialized to, if it was
    back,       \* the result of deserializing that string
    result,     \* lib.rs clean_inner run step by step: its local `result`
    pc,         \* where that run stands ("idle" when it is not run)
    entry,      \* the number of chars of `result` when the loops start
    lead,       \* iterations of `while result.starts_with('_')` so far
    trail       \* iterations of `while result.ends_with('_')` so far

callvars == <<op, ret, cleaned, fallback, checked, wire, back>>

loopvars == <<result, pc, entry, lead, trail>>

vars == <<input, op, ret, cleaned, fallback, checked, wire, back,
          result, pc, entry, lead, trail>>

----------------------------------------------------------------------------
(* Bounds of the model: the caller's string is built from at most MaxRuns  *)
(* runs, each a single char or LongRun copies of one char.                 *)
MaxRuns == 3
LongRun == 62

(* The limit written in validate and clean_inner. *)
MAX_LEN == 63

(* The chars the inputs are drawn from:                                    *)
(*   'a' U+0061, '_' U+005F, 'A' U+0041, '1' U+0031,                       *)
(*   U+0130 LATIN CAPITAL LETTER I WITH DOT ABOVE (2 bytes, lowercases to  *)
(*   'i' followed by U+0307), U+1F300 CYCLONE (4 bytes, no lowercase).     *)
Underscore == 95
Alphabet == {97, Underscore, 65, 49, 304, 127744}

----------------------------------------------------------------------------
(* char and str primitives of the Rust standard library, as the code uses  *)
(* them.                                                                   *)

char_is_ascii(c) == c < 128

is_ascii_lowercase(c) == c >= 97 /\ c <= 122

len_utf8(c) ==
    IF c < 128 THEN 1 ELSE IF c < 2048 THEN 2 ELSE IF c < 65536 THEN 3 ELSE 4

(* char::to_lowercase: the chars c lowercases to (Unicode, not only ASCII). *)
char_to_lowercase(c) ==
    IF c >= 65 /\ c <= 90 THEN <<c + 32>>
    ELSE IF c = 304 THEN <<105, 775>>
    ELSE IF c = 8490 THEN <<107>>
    ELSE <<c>>

char_to_ascii_lowercase(c) == IF c >= 65 /\ c <= 90 THEN c + 32 ELSE c

(* str::len: the length in bytes. *)
(* The recursion halves the string, so that its depth stays logarithmic.   *)
RECURSIVE len(_)
len(s) ==
    IF s = <<>> THEN 0
    ELSE IF Len(s) = 1 THEN len_utf8(s[1])
    ELSE LET h == Len(s) \div 2
         IN  len(SubSeq(s, 1, h)) + len(SubSeq(s, h + 1, Len(s)))

is_empty(s) == len(s) = 0

is_ascii(s) == \A i \in 1..Len(s) : char_is_ascii(s[i])

(* str::to_lowercase: every char replaced by the chars it lowercases to    *)
(* (the final-sigma rule concerns a char that is not in Alphabet).         *)
RECURSIVE to_lowercase(_)
to_lowercase(s) ==
    IF s = <<>> THEN <<>>
    ELSE IF Len(s) = 1 THEN char_to_lowercase(s[1])
    ELSE LET h == Len(s) \div 2
         IN  to_lowercase(SubSeq(s, 1, h)) \o to_lowercase(SubSeq(s, h + 1, Len(s)))

to_ascii_lowercase(s) == [i \in 1..Len(s) |-> char_to_ascii_lowercase(s[i])]

(* s.starts_with(c), s.ends_with(c) for a char c *)
starts_with(s, c) == Len(s) > 0 /\ s[1] = c
ends_with(s, c) == Len(s) > 0 /\ s[Len(s)] = c

(* s.starts_with(|c| c.is_ascii_lowercase()) and its ends_with twin *)
starts_with_lowercase(s) == Len(s) > 0 /\ is_ascii_lowercase(s[1])
ends_with_lowercase(s) == Len(s) > 0 /\ is_ascii_lowercase(s[Len(s)])

(* s.chars().all(|c| c.is_ascii_lowercase() || c == '_') *)
all_lowercase_or_underscore(s) ==
    \A i \in 1..Len(s) : is_ascii_lowercase(s[i]) \/ s[i] = Underscore

(* s.chars().take(n).collect() *)
chars_take(s, n) == SubSeq(s, 1, IF Len(s) < n THEN Len(s) ELSE n)

(* s.trim_matches('_') *)
trim_start_matches(s, c) ==
    LET other == {i \in 1..Len(s) : s[i] # c}
    IN  IF other = {} THEN <<>>
        ELSE SubSeq(s, CHOOSE i \in other : \A j \in other : i <= j, Len(s))

trim_end_matches(s, c) ==
    LET other == {i \in 1..Len(s) : s[i] # c}
    IN  IF other = {} THEN <<>>
        ELSE SubSeq(s, 1, CHOOSE i \in other : \A j \in other : j <= i)

trim_matches(s, c) == trim_end_matches(trim_start_matches(s, c), c)

----------------------------------------------------------------------------
(* TypeIdPrefix(String): a tuple struct with one private field. *)
TypeIdPrefix(s) == <<s>>

as_str(p) == p[1]

(* impl Display (write!(f, "{}", self.0)), Deref and AsRef<str>: each      *)
(* gives the wrapped string.                                               *)
fmt(p) == p[1]
deref(p) == p[1]
as_ref(p) == p[1]

Ok(p) == [tag |-> "Ok", value |-> p]
Err(e) == [tag |-> "Err", kind |-> e]

ValidationError ==
    {"ExceedsMaxLength", "ContainsInvalidCharacters", "StartsWithUnderscore",
     "EndsWithUnderscore", "InvalidStartCharacter", "InvalidEndCharacter",
     "IsEmpty"}

(* Variant of the messages in which two kinds share one text. *)
error_message_shared(e) ==
    CASE e = "ExceedsMaxLength" -> "Input exceeds 63 characters"
      [] e = "ContainsInvalidCharacters" ->
           "Input contains invalid characters: only lowercase ASCII letters and underscores are allowed"
      [] e = "StartsWithUnderscore" -> "Input cannot start with an underscore"
      [] e = "EndsWithUnderscore" -> "Input cannot end with an underscore"
      [] e = "InvalidStartCharacter" ->
           "Input must start with a lowercase alphabetic character"
      [] e = "InvalidEndCharacter" ->
           "Input must start with a lowercase alphabetic character"
      [] e = "IsEmpty" -> "Input cannot be empty"

(* impl Display for ValidationError: the message of each kind. *)
error_message(e) ==
    CASE e = "ExceedsMaxLength" -> "Input exceeds 63 characters"
      [] e = "ContainsInvalidCharacters" ->
           "Input contains invalid characters: only lowercase ASCII letters and underscores are allowed"
      [] e = "StartsWithUnderscore" -> "Input cannot start with an underscore"
      [] e = "EndsWithUnderscore" -> "Input cannot end with an underscore"
      [] e = "InvalidStartCharacter" ->
           "Input must start with a lowercase alphabetic character"
      [] e = "InvalidEndCharacter" ->
           "Input must end with a lowercase alphabetic character"
      [] e = "IsEmpty" -> "Input cannot be empty"

(* serde::de::Error::custom(e): a deserialization error made of e's        *)
(* Display text.                                                           *)
DeError(msg) == [tag |-> "Err", kind |-> "Custom", msg |-> msg]

(* Variants of validate with one slip each; the properties below tell     *)
(* validate from them.                                                     *)

(* the closing character-set check left out *)
validate_without_charset_check(s) ==
    IF len(s) > MAX_LEN THEN Err("ExceedsMaxLength")
    ELSE IF is_empty(s) THEN Err("IsEmpty")
    ELSE IF ~is_ascii(s) THEN Err("ContainsInvalidCharacters")
    ELSE IF starts_with(s, Underscore) THEN Err("StartsWithUnderscore")
    ELSE IF ends_with(s, Underscore) THEN Err("EndsWithUnderscore")
    ELSE IF ~starts_with_lowercase(s) THEN Err("InvalidStartCharacter")
    ELSE IF ~ends_with_lowercase(s) THEN Err("InvalidEndCharacter")
    ELSE Ok(TypeIdPrefix(s))

(* the length limit off by one: >= instead of > *)
validate_length_off_by_one(s) ==
    IF len(s) >= MAX_LEN THEN Err("ExceedsMaxLength")
    ELSE IF is_empty(s) THEN Err("IsEmpty")
    ELSE IF ~is_ascii(s) THEN Err("ContainsInvalidCharacters")
    ELSE IF starts_with(s, Underscore) THEN Err("StartsWithUnderscore")
    ELSE IF ends_with(s, Underscore) THEN Err("EndsWithUnderscore")
    ELSE IF ~starts_with_lowercase(s) THEN Err("InvalidStartCharacter")
    ELSE IF ~ends_with_lowercase(s) THEN Err("InvalidEndCharacter")
    ELSE IF ~all_lowercase_or_underscore(s) THEN Err("ContainsInvalidCharacters")
    ELSE Ok(TypeIdPrefix(s))

(* the first-character check moved before the trailing-underscore check *)
validate_start_before_end(s) ==
    IF len(s) > MAX_LEN THEN Err("ExceedsMaxLength")
    ELSE IF is_empty(s) THEN Err("IsEmpty")
    ELSE IF ~is_ascii(s) THEN Err("ContainsInvalidCharacters")
    ELSE IF starts_with(s, Underscore) THEN Err("StartsWithUnderscore")
    ELSE IF ~starts_with_lowercase(s) THEN Err("InvalidStartCharacter")
    ELSE IF ends_with(s, Underscore) THEN Err("EndsWithUnderscore")
    ELSE IF ~ends_with_lowercase(s) THEN Err("InvalidEndCharacter")
    ELSE IF ~all_lowercase_or_underscore(s) THEN Err("ContainsInvalidCharacters")
    ELSE Ok(TypeIdPrefix(s))

(* the accepted input stored with its underscores removed *)
validate_normalizing(s) ==
    IF len(s) > MAX_LEN THEN Err("ExceedsMaxLength")
    ELSE IF is_empty(s) THEN Err("IsEmpty")
    ELSE IF ~is_ascii(s) THEN Err("ContainsInvalidCharacters")
    ELSE IF starts_with(s, Underscore) THEN Err("StartsWithUnderscore")
    ELSE IF ends_with(s, Underscore) THEN Err("EndsWithUnderscore")
    ELSE IF ~starts_with_lowercase(s) THEN Err("InvalidStartCharacter")
    ELSE IF ~ends_with_lowercase(s) THEN Err("InvalidEndCharacter")
    ELSE IF ~all_lowercase_or_underscore(s) THEN Err("ContainsInvalidCharacters")
    ELSE Ok(TypeIdPrefix(SelectSeq(s, is_ascii_lowercase)))

(* the character-set check moved before the checks of the two ends *)
validate_charset_first(s) ==
    IF len(s) > MAX_LEN THEN Err("ExceedsMaxLength")
    ELSE IF is_empty(s) THEN Err("IsEmpty")
    ELSE IF ~is_ascii(s) THEN Err("ContainsInvalidCharacters")
    ELSE IF ~all_lowercase_or_underscore(s) THEN Err("ContainsInvalidCharacters")
    ELSE IF starts_with(s, Underscore) THEN Err("StartsWithUnderscore")
    ELSE IF ends_with(s, Underscore) THEN Err("EndsWithUnderscore")
    ELSE IF ~starts_with_lowercase(s) THEN Err("InvalidStartCharacter")
    ELSE IF ~ends_with_lowercase(s) THEN Err("InvalidEndCharacter")
    ELSE Ok(TypeIdPrefix(s))

(* the empty string accepted *)
validate_empty_ok(s) ==
    IF len(s) > MAX_LEN THEN Err("ExceedsMaxLength")
    ELSE IF is_empty(s) THEN Ok(TypeIdPrefix(s))
    ELSE IF ~is_ascii(s) THEN Err("ContainsInvalidCharacters")
    ELSE IF starts_with(s, Underscore) THEN Err("StartsWithUnderscore")
    ELSE IF ends_with(s, Underscore) THEN Err("EndsWithUnderscore")
    ELSE IF ~starts_with_lowercase(s) THEN Err("InvalidStartCharacter")
    ELSE IF ~ends_with_lowercase(s) THEN Err("InvalidEndCharacter")
    ELSE IF ~all_lowercase_or_underscore(s) THEN Err("ContainsInvalidCharacters")
    ELSE Ok(TypeIdPrefix(s))

(* TypeIdPrefix::validate of type_id_prefix.rs *)
validate(s) ==
    IF len(s) > MAX_LEN THEN Err("ExceedsMaxLength")
    ELSE IF is_empty(s) THEN Err("IsEmpty")
    ELSE IF ~is_ascii(s) THEN Err("ContainsInvalidCharacters")
    ELSE IF starts_with(s, Underscore) THEN Err("StartsWithUnderscore")
    ELSE IF ends_with(s, Underscore) THEN Err("EndsWithUnderscore")
    ELSE IF ~starts_with_lowercase(s) THEN Err("InvalidStartCharacter")
    ELSE IF ~ends_with_lowercase(s) THEN Err("InvalidEndCharacter")
    ELSE IF ~all_lowercase_or_underscore(s) THEN Err("ContainsInvalidCharacters")
    ELSE Ok(TypeIdPrefix(s))

(* Variant of the filter closure that keeps letters only. *)
clean_keep_letters_only(c) == is_ascii_lowercase(c) /\ char_is_ascii(c)

(* The filter closure of clean_inner. *)
clean_keep(c) == (is_ascii_lowercase(c) \/ c = Underscore) /\ char_is_ascii(c)

(* Variants of clean_inner: without the final trim, and with the trim     *)
(* done before the filter.                                                 *)
clean_inner_without_trim(s) ==
    LET lowered == to_lowercase(s)
        truncated == IF len(lowered) > MAX_LEN THEN chars_take(lowered, MAX_LEN)
                     ELSE lowered
    IN  SelectSeq(to_ascii_lowercase(truncated), clean_keep)

clean_inner_trim_first(s) ==
    LET lowered == to_lowercase(s)
        truncated == IF len(lowered) > MAX_LEN THEN chars_take(lowered, MAX_LEN)
                     ELSE lowered
        trimmed == trim_matches(truncated, Underscore)
    IN  SelectSeq(to_ascii_lowercase(trimmed), clean_keep)

(* Two more variants: the filter done before the truncation, and the     *)
(* truncation keeping one char too many.                                   *)
clean_inner_filter_first(s) ==
    LET lowered == to_lowercase(s)
        filtered == SelectSeq(to_ascii_lowercase(lowered), clean_keep)
        truncated == IF len(filtered) > MAX_LEN THEN chars_take(filtered, MAX_LEN)
                     ELSE filtered
    IN  trim_matches(truncated, Underscore)

clean_inner_take_one_more(s) ==
    LET lowered == to_lowercase(s)
        truncated == IF len(lowered) > MAX_LEN
                     THEN chars_take(lowered, MAX_LEN + 1)
                     ELSE lowered
        filtered == SelectSeq(to_ascii_lowercase(truncated), clean_keep)
    IN  trim_matches(filtered, Underscore)

(* TypeIdPrefix::clean_inner of type_id_prefix.rs *)
clean_inner(s) ==
    LET lowered == to_lowercase(s)
        truncated == IF len(lowered) > MAX_LEN THEN chars_take(lowered, MAX_LEN)
                     ELSE lowered
        filtered == SelectSeq(to_ascii_lowercase(truncated), clean_keep)
    IN  trim_matches(filtered, Underscore)

(* #[derive(Default)]: the wrapped String is String::default(). *)
default == TypeIdPrefix(<<>>)

(* impl Serialize: serializer.serialize_str(&self.0) *)
serialize(p) == p[1]

(* Variant of deserialize that wraps the string without validating it. *)
deserialize_unchecked(s) == Ok(TypeIdPrefix(s))

(* impl Deserialize: the string read is validated, and a ValidationError   *)
(* becomes a custom deserialization error.                                 *)
deserialize(s) ==
    LET r == validate(s)
    IN  IF r.tag = "Ok" THEN r ELSE DeError(error_message(r.kind))

(* The strict entry points: each hands its string to validate.            *)
(* impl FromStr: from_str(s) *)
from_str(s) == validate(s)

(* impl TryFrom<String>: try_from(input) validates input.as_ref() *)
try_from_string(s) == validate(s)

(* impl TryFrom<&str>: try_from(input) *)
try_from_str(s) == validate(s)

(* Variant of try_create_prefix that cleans the string before validating. *)
try_create_prefix_cleaning(s) == from_str(clean_inner(s))

(* PrefixFactory::try_create_prefix: TypeIdPrefix::from_str(self.as_ref()) *)
try_create_prefix(s) == from_str(s)

(* lib.rs holds an earlier copy of the same type, whose validate accepts   *)
(* the empty string and whose clean_inner strips the underscores in two    *)
(* loops.                                                                  *)
lib_validate(s) ==
    IF len(s) > MAX_LEN THEN Err("ExceedsMaxLength")
    ELSE IF is_empty(s) THEN Ok(TypeIdPrefix(s))
    ELSE IF ~is_ascii(s) THEN Err("ContainsInvalidCharacters")
    ELSE IF starts_with(s, Underscore) THEN Err("StartsWithUnderscore")
    ELSE IF ends_with(s, Underscore) THEN Err("EndsWithUnderscore")
    ELSE IF ~starts_with_lowercase(s) THEN Err("InvalidStartCharacter")
    ELSE IF ~ends_with_lowercase(s) THEN Err("InvalidEndCharacter")
    ELSE IF ~all_lowercase_or_underscore(s) THEN Err("ContainsInvalidCharacters")
    ELSE Ok(TypeIdPrefix(s))

(* while result.starts_with('_') { result.remove(0); } *)
RECURSIVE remove_leading(_)
remove_leading(s) ==
    IF starts_with(s, Underscore) THEN remove_leading(Tail(s)) ELSE s

(* a single pop in place of the loop *)
pop_trailing_once(s) ==
    IF ends_with(s, Underscore) THEN SubSeq(s, 1, Len(s) - 1) ELSE s

(* while result.ends_with('_') { result.pop(); } *)
RECURSIVE pop_trailing(_)
pop_trailing(s) ==
    IF ends_with(s, Underscore) THEN pop_trailing(SubSeq(s, 1, Len(s) - 1)) ELSE s

lib_clean_inner(s) ==
    LET lowered == to_lowercase(s)
        truncated == IF len(lowered) > MAX_LEN THEN chars_take(lowered, MAX_LEN)
                     ELSE lowered
        filtered == SelectSeq(to_ascii_lowercase(truncated), clean_keep)
    IN  pop_trailing(remove_leading(filtered))

(* String::remove(idx), the string that is left *)
remove(s, idx) == SubSeq(s, 1, idx) \o SubSeq(s, idx + 2, Len(s))

(* a pop that takes nothing away *)
pop_nothing(s) == s

(* String::pop(), the string that is left *)
pop(s) == SubSeq(s, 1, Len(s) - 1)

(* TryFrom<&str> of lib.rs *)
lib_try_from_str(s) == lib_validate(s)

(* the operations of lib.rs *)
LibOps == {"sanitize_and_create", "lib_try_from_str"}

----------------------------------------------------------------------------
(* The caller's strings. *)
Rep(c, n) == [i \in 1..n |-> c]

Run == {Rep(c, n) : c \in Alphabet, n \in {1, LongRun}}

RECURSIVE Concat(_)
Concat(rs) == IF rs = <<>> THEN <<>> ELSE Head(rs) \o Concat(Tail(rs))

Inputs == UNION {{Concat(rs) : rs \in [1..k -> Run]} : k \in 0..MaxRuns}

NoRet == [tag |-> "None"]
Value(p) == [tag |-> "Value", value |-> p]

Init ==
    /\ input \in Inputs
    /\ op = "init"
    /\ ret = NoRet
    /\ cleaned = <<>>
    /\ fallback = "None"
    /\ checked = NoRet
    /\ wire = <<>>
    /\ back = NoRet
    /\ result = <<>>
    /\ pc = "idle"
    /\ entry = 0
    /\ lead = 0
    /\ trail = 0

(* impl TryFrom<String> for TypeIdPrefix *)
TryFromString ==
    /\ op = "init"
    /\ op' = "try_from_string"
    /\ ret' = try_from_string(input)
    /\ UNCHANGED <<input, cleaned, fallback, checked, wire, back>>
    /\ UNCHANGED loopvars

(* impl TryFrom<&str> for TypeIdPrefix *)
TryFromStr ==
    /\ op = "init"
    /\ op' = "try_from_str"
    /\ ret' = try_from_str(input)
    /\ UNCHANGED <<input, cleaned, fallback, checked, wire, back>>
    /\ UNCHANGED loopvars

(* impl FromStr for TypeIdPrefix *)
FromStr ==
    /\ op = "init"
    /\ op' = "from_str"
    /\ ret' = from_str(input)
    /\ UNCHANGED <<input, cleaned, fallback, checked, wire, back>>
    /\ UNCHANGED loopvars

(* PrefixFactory::try_create_prefix *)
TryCreatePrefix ==
    /\ op = "init"
    /\ op' = "try_create_prefix"
    /\ ret' = try_create_prefix(input)
    /\ UNCHANGED <<input, cleaned, fallback, checked, wire, back>>
    /\ UNCHANGED loopvars

(* PrefixFactory::create_prefix_sanitized: validate the cleaned input and  *)
(* fall back to the default value, handing the error to the closure.       *)
CreatePrefixSanitized ==
    /\ op = "init"
    /\ op' = "create_prefix_sanitized"
    /\ cleaned' = clean_inner(input)
    /\ LET r == validate(cleaned')
       IN  IF r.tag = "Ok"
           THEN ret' = Value(r.value) /\ fallback' = "None"
           ELSE ret' = Value(default) /\ fallback' = r.kind
    /\ UNCHANGED <<input, checked, wire, back>>
    /\ UNCHANGED loopvars

(* Sanitize::sanitize_and_create of lib.rs *)
SanitizeAndCreate ==
    /\ op = "init"
    /\ op' = "sanitize_and_create"
    /\ cleaned' = lib_clean_inner(input)
    /\ LET r == lib_validate(cleaned')
       IN  IF r.tag = "Ok"
           THEN ret' = Value(r.value) /\ fallback' = "None"
           ELSE ret' = Value(TypeIdPrefix(<<>>)) /\ fallback' = r.kind
    /\ UNCHANGED <<input, checked, wire, back>>
    /\ UNCHANGED loopvars

(* TypeIdPrefix::try_from(input) of lib.rs *)
LibTryFromStr ==
    /\ op = "init"
    /\ op' = "lib_try_from_str"
    /\ ret' = lib_try_from_str(input)
    /\ UNCHANGED <<input, cleaned, fallback, checked, wire, back>>
    /\ UNCHANGED loopvars

(* TypeIdPrefix::default() *)
Default ==
    /\ op = "init"
    /\ op' = "default"
    /\ ret' = Value(default)
    /\ UNCHANGED <<input, cleaned, fallback, checked, wire, back>>
    /\ UNCHANGED loopvars

(* impl Deserialize for TypeIdPrefix: the string read is validated. *)
Deserialize ==
    /\ op = "init"
    /\ op' = "deserialize"
    /\ ret' = deserialize(input)
    /\ UNCHANGED <<input, cleaned, fallback, checked, wire, back>>
    /\ UNCHANGED loopvars

(* The prefix an operation handed out goes through                         *)
(* TypeIdPrefix::try_from(prefix.as_str()), as the callers in tests/ and   *)
(* fuzz/ do; a prefix of lib.rs goes through the try_from of lib.rs.       *)
HandedOut == ret.tag \in {"Ok", "Value"}

Revalidate ==
    /\ HandedOut
    /\ checked = NoRet
    /\ wire = <<>>
    /\ checked' = IF op \in LibOps
                  THEN lib_validate(as_str(ret.value))
                  ELSE validate(as_str(ret.value))
    /\ UNCHANGED <<input, op, ret, cleaned, fallback, wire, back>>
    /\ UNCHANGED loopvars

(* The prefix an operation of type_id_prefix.rs handed out is serialized   *)
(* (lib.rs has no Serialize), and the string is deserialized again, as in  *)
(* tests/serde_tests.rs.                                                   *)
Serialize ==
    /\ HandedOut
    /\ op \notin LibOps
    /\ checked = NoRet
    /\ wire = <<>>
    /\ wire' = <<serialize(ret.value)>>
    /\ UNCHANGED <<input, op, ret, cleaned, fallback, checked, back>>
    /\ UNCHANGED loopvars

DeserializeBack ==
    /\ wire # <<>>
    /\ back = NoRet
    /\ back' = deserialize(wire[1])
    /\ UNCHANGED <<input, op, ret, cleaned, fallback, checked, wire>>
    /\ UNCHANGED loopvars

Next ==
    \/ TryFromString
    \/ TryFromStr
    \/ FromStr
    \/ TryCreatePrefix
    \/ CreatePrefixSanitized
    \/ SanitizeAndCreate
    \/ LibTryFromStr
    \/ Default
    \/ Deserialize
    \/ Revalidate
    \/ Serialize
    \/ DeserializeBack

Spec == Init /\ [][Next]_vars

----------------------------------------------------------------------------
(* clean_inner of lib.rs from the point where its loops start, one step    *)
(* for each iteration of the two loops.                                    *)

(* clean_inner before its loops: to_lowercase, the truncation, the filter *)
lowercase_truncate_filter(s) ==
    LET lowered == to_lowercase(s)
        truncated == IF len(lowered) > MAX_LEN THEN chars_take(lowered, MAX_LEN)
                     ELSE lowered
    IN  SelectSeq(to_ascii_lowercase(truncated), clean_keep)

(* `result` holds the filtered string and the first loop is about to test  *)
(* its condition.                                                          *)
LoopInit ==
    /\ input \in Inputs
    /\ op = "init"
    /\ ret = NoRet
    /\ cleaned = <<>>
    /\ fallback = "None"
    /\ checked = NoRet
    /\ wire = <<>>
    /\ back = NoRet
    /\ result = lowercase_truncate_filter(input)
    /\ pc = "leading"
    /\ entry = Len(result)
    /\ lead = 0
    /\ trail = 0

(* while result.starts_with('_'): one iteration *)
RemoveLeading ==
    /\ pc = "leading"
    /\ starts_with(result, Underscore)
    /\ result' = remove(result, 0)
    /\ lead' = lead + 1
    /\ UNCHANGED <<input, pc, entry, trail>>
    /\ UNCHANGED callvars

(* while result.starts_with('_'): the condition is false *)
LeadingDone ==
    /\ pc = "leading"
    /\ ~starts_with(result, Underscore)
    /\ pc' = "trailing"
    /\ UNCHANGED <<input, result, entry, lead, trail>>
    /\ UNCHANGED callvars

(* while result.ends_with('_'): one iteration *)
PopTrailing ==
    /\ pc = "trailing"
    /\ ends_with(result, Underscore)
    /\ result' = pop(result)
    /\ trail' = trail + 1
    /\ UNCHANGED <<input, pc, entry, lead>>
    /\ UNCHANGED callvars

(* while result.ends_with('_'): the condition is false; `result` returned *)
TrailingDone ==
    /\ pc = "trailing"
    /\ ~ends_with(result, Underscore)
    /\ pc' = "done"
    /\ UNCHANGED <<input, result, entry, lead, trail>>
    /\ UNCHANGED callvars

LoopNext ==
    \/ RemoveLeading
    \/ LeadingDone
    \/ PopTrailing
    \/ TrailingDone

(* The function runs on one thread and nothing can suspend it: a step that *)
(* can be taken is taken.                                                  *)
LoopSpec == LoopInit /\ [][LoopNext]_vars /\ WF_vars(LoopNext)

----------------------------------------------------------------------------
(* The operations that return validate's result for the caller's string   *)
(* as it is.                                                               *)
StrictOps ==
    {"try_from_string", "try_from_str", "from_str", "try_create_prefix"}

Strict == op \in StrictOps

Sanitized == op = "create_prefix_sanitized"

(* The type invariant of the documentation of TypeIdPrefix, on a string.   *)
TypeInvariant(s) ==
    /\ Len(s) <= 63
    /\ \A i \in 1..Len(s) : s[i] \in 97..122 \/ s[i] = 95
    /\ s # <<>> => s[1] \in 97..122 /\ s[Len(s)] \in 97..122

(* C1: every TypeIdPrefix handed out by TryFrom<String>, TryFrom<&str>,    *)
(* FromStr, try_create_prefix, create_prefix_sanitized, sanitize_and_create, *)
(* Default or Deserialize holds a string of at most 63 chars, all lowercase ASCII     *)
(* letters or '_', whose first and last chars are letters when it is not   *)
(* empty.                                                                  *)
C1_TypeInvariant == HandedOut => TypeInvariant(as_str(ret.value))

(* a sanitized prefix of full length made from an input that was too long  *)
C1_Witness ==
    /\ Sanitized
    /\ len(input) > MAX_LEN
    /\ Len(as_str(ret.value)) = MAX_LEN

(* C2: validate returns Ok exactly for the strings that are non-empty, at  *)
(* most 63 bytes long (s.len()), made of lowercase ASCII letters and '_',  *)
(* and that start and end with a letter; the empty string gives            *)
(* Err(IsEmpty).                                                           *)
WellFormed(s) ==
    /\ s # <<>>
    /\ len(s) <= 63
    /\ \A i \in 1..Len(s) : s[i] \in 97..122 \/ s[i] = 95
    /\ s[1] \in 97..122
    /\ s[Len(s)] \in 97..122

Rules(s) ==
    << [fails |-> len(s) > 63, kind |-> "ExceedsMaxLength"],
       [fails |-> s = <<>>, kind |-> "IsEmpty"],
       [fails |-> \E i \in 1..Len(s) : s[i] >= 128,
        kind |-> "ContainsInvalidCharacters"],
       [fails |-> s # <<>> /\ s[1] = 95, kind |-> "StartsWithUnderscore"],
       [fails |-> s # <<>> /\ s[Len(s)] = 95, kind |-> "EndsWithUnderscore"],
       [fails |-> s = <<>> \/ s[1] \notin 97..122,
        kind |-> "InvalidStartCharacter"],
       [fails |-> s = <<>> \/ s[Len(s)] \notin 97..122,
        kind |-> "InvalidEndCharacter"],
       [fails |-> \E i \in 1..Len(s) : s[i] \notin 97..122 /\ s[i] # 95,
        kind |-> "ContainsInvalidCharacters"] >>

FirstFailing(s) ==
    LET rules == Rules(s)
        failing == {i \in 1..Len(rules) : rules[i].fails}
    IN  rules[CHOOSE i \in failing : \A j \in failing : i <= j].kind

C4_ExceedsIffOver63Chars ==
    Strict =>
      /\ ret = Err("ExceedsMaxLength") <=> Len(input) > 63
      /\ (Len(input) <= 63 /\ \E i \in 1..Len(input) : input[i] >= 128)
         => ret = Err("ContainsInvalidCharacters")

(* C5: when validate accepts s, the TypeIdPrefix holds s unchanged:        *)
(* as_str, Display, Deref and AsRef all give s.                            *)
C5_StoredVerbatim ==
    (Strict /\ ret.tag = "Ok") =>
      /\ as_str(ret.value) = input
      /\ fmt(ret.value) = input
      /\ deref(ret.value) = input
      /\ as_ref(ret.value) = input

(* an accepted string with an interior '_' *)
C5_Witness ==
    /\ op = "from_str"
    /\ ret.tag = "Ok"
    /\ \E i \in 1..Len(input) : input[i] = 95
    /\ as_str(ret.value) = input

(* C6: for every input, the cleaned string and the prefix that             *)
(* create_prefix_sanitized returns are at most 63 long, hold only          *)
(* lowercase ASCII letters and '_', and neither start nor end with '_'.    *)
SanitizedShape(s) ==
    /\ Len(s) <= 63
    /\ len(s) <= 63
    /\ \A i \in 1..Len(s) : s[i] \in 97..122 \/ s[i] = 95
    /\ s # <<>> => s[1] # 95 /\ s[Len(s)] # 95

C6_SanitizedShape ==
    Sanitized => SanitizedShape(cleaned) /\ SanitizedShape(as_str(ret.value))

(* an input over the limit that starts with '_' and is cleaned to a        *)
(* non-empty string                                                        *)
C6_Witness ==
    /\ Sanitized
    /\ Len(input) > MAX_LEN
    /\ input[1] = 95
    /\ cleaned # <<>>

(* C7: cleaning is idempotent: cleaning the cleaned string gives it back.  *)
C7_Idempotent == Sanitized => clean_inner(cleaned) = cleaned

(* an input that cleaning changed, to a string that is not empty *)
C7_Witness ==
    /\ Sanitized
    /\ cleaned # input
    /\ cleaned # <<>>
    /\ \E i \in 1..Len(cleaned) : cleaned[i] = 95

(* C8: an input that validate accepts is cleaned to itself, and            *)
(* create_prefix_sanitized returns it.                                     *)
C8_ValidFixedPoint ==
    (Sanitized /\ validate(input).tag = "Ok") =>
      cleaned = input /\ as_str(ret.value) = input

(* a valid input with an interior '_' that went through the sanitizer *)
C8_Witness ==
    /\ Sanitized
    /\ validate(input).tag = "Ok"
    /\ \E i \in 1..Len(input) : input[i] = 95
    /\ as_str(ret.value) = input

(* C9: the prefix that create_prefix_sanitized returns, and the default    *)
(* prefix, are accepted when they are validated again.                     *)
C9_HandedOutIsValid ==
    (op \in {"create_prefix_sanitized", "default"} /\ checked # NoRet)
      => checked.tag = "Ok"

C11_SanitizerNeverFails ==
    /\ Sanitized =>
         /\ ret.tag = "Value"
         /\ as_str(ret.value) = cleaned
         /\ fallback # "None" <=> validate(cleaned).tag = "Err"
         /\ validate(cleaned).tag = "Err" => ret.value = default
         /\ validate(cleaned).tag = "Ok" => ret.value = validate(cleaned).value
    /\ op = "sanitize_and_create" =>
         ret.tag = "Value" /\ as_str(ret.value) = cleaned

(* an input without letters: the closure ran and the default came back *)
C11_Witness ==
    /\ Sanitized
    /\ input # <<>>
    /\ fallback # "None"
    /\ ret = Value(default)

(* C12: TryFrom<String>, TryFrom<&str>, FromStr::from_str and              *)
(* try_create_prefix all return what validate returns for the caller's     *)
(* string as it is: the same prefix or the same error.                     *)
C12_StrictEntryPointsAgree == Strict => ret = validate(input)

(* try_create_prefix rejects a string that cleaning would have repaired *)
C12_Witness ==
    /\ op = "try_create_prefix"
    /\ ret = Err("InvalidStartCharacter")
    /\ validate(clean_inner(input)).tag = "Ok"

(* C13: deserializing a string succeeds exactly when validate accepts it,  *)
(* then yields a prefix whose as_str() is that string, and otherwise       *)
(* reports a deserialization error; no prefix violating the type invariant *)
(* comes out.                                                              *)
C13_DeserializeValidates ==
    op = "deserialize" =>
      /\ ret.tag = "Ok" <=> validate(input).tag = "Ok"
      /\ ret.tag = "Ok" <=> WellFormed(input)
      /\ ret.tag = "Ok" =>
            as_str(ret.value) = input /\ TypeInvariant(as_str(ret.value))
      /\ ret.tag # "Ok" =>
            ret = DeError(error_message(validate(input).kind))

(* "_a" is refused with the message of StartsWithUnderscore *)
C13_Witness ==
    /\ op = "deserialize"
    /\ input = <<95, 97>>
    /\ ret = DeError("Input cannot start with an underscore")

(* C14: every prefix the API produces, the sanitized and the default ones  *)
(* included, comes back equal when it is serialized and deserialized.      *)
C14_RoundTrip == back # NoRet => back = Ok(ret.value)

(* C15: deserializing the empty string succeeds and yields a prefix whose  *)
(* as_str() is "".                                                         *)
C15_EmptyDeserializes ==
    (op = "deserialize" /\ input = <<>>) =>
      ret.tag = "Ok" /\ as_str(ret.value) = <<>>

(* C16: the seven kinds of ValidationError have pairwise distinct Display  *)
(* messages, so the message of a failed deserialization names the kind.    *)
C16_MessagesDistinct ==
    /\ \A e1, e2 \in ValidationError :
         error_message(e1) = error_message(e2) => e1 = e2
    /\ (op = "deserialize" /\ ret.tag = "Err") =>
         \A e \in ValidationError :
           error_message(e) = ret.msg => validate(input) = Err(e)

(* a deserialization refused for its last character *)
C16_Witness ==
    /\ op = "deserialize"
    /\ ret.tag = "Err"
    /\ ret.msg = "Input must end with a lowercase alphabetic character"
    /\ validate(input) = Err("InvalidEndCharacter")

(* C17: cleaning removes every non-ASCII char: each char of the cleaned    *)
(* string comes from an ASCII letter or '_' of the input, so an input      *)
(* without an ASCII letter is cleaned to the empty string and              *)
(* create_prefix_sanitized returns the empty value for it.                 *)
AsciiLetter(c) == c \in 65..90 \/ c \in 97..122

AsciiLower(c) == IF c \in 65..90 THEN c + 32 ELSE c

C17_NonAsciiRemoved ==
    Sanitized =>
      /\ \A i \in 1..Len(cleaned) :
           \E j \in 1..Len(input) :
             /\ AsciiLetter(input[j]) \/ input[j] = 95
             /\ AsciiLower(input[j]) = cleaned[i]
      /\ (\A j \in 1..Len(input) : ~AsciiLetter(input[j]))
           => cleaned = <<>> /\ ret = Value(default)

(* C18: the cleaned string is strip('_', filter([a-z_], first 63 chars of  *)
(* lowercase(s))), lowercase being str::to_lowercase: the truncation comes *)
(* after the lowercasing and before the filter, so a char past position 63 *)
(* of the lowercased input never reaches the output, and underscores       *)
(* inside the string stay.  The same holds for the clean_inner of lib.rs.  *)
First63(s) == IF Len(s) <= 63 THEN s ELSE [i \in 1..63 |-> s[i]]

LowerOrUnderscore(c) == c \in 97..122 \/ c = 95

StripBoundary(s) ==
    LET keep == {i \in 1..Len(s) : s[i] # 95}
    IN  IF keep = {} THEN <<>>
        ELSE LET lo == CHOOSE i \in keep : \A j \in keep : i <= j
                 hi == CHOOSE i \in keep : \A j \in keep : j <= i
             IN  [i \in 1..(hi - lo + 1) |-> s[lo + i - 1]]

Pipeline(s) ==
    StripBoundary(SelectSeq(First63(to_lowercase(s)), LowerOrUnderscore))

C18_Pipeline ==
    op \in {"create_prefix_sanitized", "sanitize_and_create"}
      => cleaned = Pipeline(input)

(* a letter past position 63 of the lowercased input is lost although the  *)
(* filter leaves fewer than 63 chars                                       *)
C18_Witness ==
    /\ Sanitized
    /\ cleaned # <<>>
    /\ Len(cleaned) < 63
    /\ \E i \in 64..Len(to_lowercase(input)) :
         to_lowercase(input)[i] \in 97..122

(* C19: for a non-empty ASCII input of at most 63 chars, validate returns  *)
(* ContainsInvalidCharacters exactly when the first and the last char are  *)
(* lowercase letters and some char between them is neither a lowercase     *)
(* letter nor '_'; a bad first or last char is reported as                 *)
(* StartsWithUnderscore, EndsWithUnderscore, InvalidStartCharacter or      *)
(* InvalidEndCharacter, whatever lies between.                             *)
C19_InteriorOnly ==
    ( /\ Strict
      /\ input # <<>>
      /\ Len(input) <= 63
      /\ \A i \in 1..Len(input) : input[i] < 128 )
    =>
      /\ ret = Err("ContainsInvalidCharacters")
           <=> /\ input[1] \in 97..122
               /\ input[Len(input)] \in 97..122
               /\ \E i \in 2..(Len(input) - 1) : ~LowerOrUnderscore(input[i])
      /\ (input[1] \notin 97..122 \/ input[Len(input)] \notin 97..122)
           => /\ ret.tag = "Err"
              /\ ret.kind \in {"StartsWithUnderscore", "EndsWithUnderscore",
                                "InvalidStartCharacter", "InvalidEndCharacter"}

(* "a1a" is rejected for its interior *)
C19_Witness ==
    /\ op = "try_from_str"
    /\ input = <<97, 49, 97>>
    /\ ret = Err("ContainsInvalidCharacters")

(* C20: in create_prefix_sanitized the fallback closure runs exactly when  *)
(* the cleaned input is empty, and the error it receives is IsEmpty; no    *)
(* other kind reaches it.                                                  *)
C20_FallbackOnlyIsEmpty ==
    Sanitized =>
      /\ fallback # "None" <=> cleaned = <<>>
      /\ fallback \in {"None", "IsEmpty"}

(* an input over the limit with nothing to keep *)
C20_Witness ==
    /\ Sanitized
    /\ Len(input) > MAX_LEN
    /\ fallback = "IsEmpty"

LoopsBounded ==
    /\ lead <= entry
    /\ trail <= entry - lead
    /\ pc = "done" => result = lib_clean_inner(input)

C22_LoopsTerminate == []LoopsBounded /\ <>(pc = "done")

(* a string of '_' only: the first loop takes every char, the second none  *)
C22_Witness ==
    /\ pc = "done"
    /\ entry > 1
    /\ lead = entry
    /\ trail = 0
    /\ result = <<>>

====
